---- MODULE Spec2Model ----
(***************************************************************************)
(* Model of the txbench client (src/k2/cmd/txbench/txbench_client.cpp) and *)
(* of the retry driver it uses (src/k2/transport/RetryStrategy.h).         *)
(*                                                                         *)
(* Two state machines share this module:                                   *)
(*   SpecRetry  the ExponentialBackoffStrategy alone, driven with every    *)
(*              configuration and every outcome of the operated function;  *)
(*   Spec       one shard's Client: start, session, ACK observer, send     *)
(*              loop, timer and gracefulStop.                              *)
(***************************************************************************)
EXTENDS Integers, Sequences, FiniteSets, TLC

VARIABLES
    \* ---- ExponentialBackoffStrategy (RetryStrategy.h:107-119)
    _retries,          \* how many times we should retry
    _try,              \* which try we're on
    _rate,             \* the exponential growth rate
    _currentTimeout,   \* the value of the current timeout (milliseconds)
    _success,          \* the latest round has succeeded
    _used,             \* the strategy has been used already
    \* ---- one invocation of run()
    runPc,             \* "idle" | "loop" | "awaiting" | "done"
    resultPtr,         \* the future stored in resultPtr
    runResult,         \* the future run() returned, once it completed
    \* ---- history of the driver (not program state)
    runs,              \* number of times run() was invoked
    startTimeout,      \* the value withStartTimeout() configured
    funcLog,           \* one record per invocation of func
    callsBefore,       \* Len(funcLog) when the current run() was invoked
    \* ---- Client: configuration read by the constructor (lines 35-52)
    myID,              \* seastar::this_shard_id()
    _tcpRemotes,       \* number of entries of tcp_remotes
    responseSize,      \* _session.config.responseSize
    pipelineSize,      \* _session.config.pipelineSize
    pipelineCount,     \* _session.config.pipelineCount
    \* ---- Client: _session
    sessionID,
    client,            \* _session.client: the endpoint, its url empty until
                       \* discovery stores the data endpoint
    totalSize,
    totalCount,
    unackedSize,
    unackedCount,
    \* ---- Client: members (lines 291-305)
    _stopped,
    _haveSendPromise,
    _sendProm,         \* "empty" | "pending" | "fulfilled"
    _stopPromise,      \* "unset" | "set"
    _timer,            \* "idle" | "armed" | "fired"
    _lastAckedTotal,
    _requestLatency,   \* number of samples add() has put into the histogram
    _requestIssueTimes,\* slot -> issue stamp (the number of the request sent
                       \* when the clock was read; 0: value-initialised)
    \* ---- Client: environment and control
    ackObserver,       \* an observer is registered for ACK
    startPc,           \* where the future chain of start() stands
    sendPc,            \* where the send loop of _benchmark() stands
    rpc,               \* the request of the start-up chain that is in flight
    stopFuture,        \* what gracefulStop() last returned
    remoteFault,       \* how the bootstrap endpoint fails while it fails
    lastAck,           \* history: << >>, or the totals of the ack last
                       \* accepted
    maxAcked,          \* history: largest totalCount of an accepted ack
    wokenBy,           \* history: who fulfilled the awakener the sender has
                       \* not resumed from yet ("none" | "ack" |
                       \* "ack with credit" | "timer" | "stop")
    failure            \* "none", or the assertion / promise misuse that
                       \* ended the process

retryVars == <<_retries, _try, _rate, _currentTimeout, _success, _used,
               runPc, resultPtr, runResult, runs, startTimeout, funcLog,
               callsBefore>>

configVars == <<myID, _tcpRemotes, responseSize, pipelineSize, pipelineCount>>

sessionVars == <<sessionID, client, totalSize, totalCount, unackedSize,
                 unackedCount>>

memberVars == <<_stopped, _haveSendPromise, _sendProm, _stopPromise, _timer,
                _lastAckedTotal, _requestIssueTimes>>

controlVars ==
    <<ackObserver, startPc, sendPc, rpc, stopFuture, remoteFault, failure>>

controlVarsButFailure ==
    <<ackObserver, startPc, sendPc, rpc, stopFuture, remoteFault>>

\* what only the ACK observer changes
ackVars == <<lastAck, maxAcked, _requestLatency>>

clientVars ==
    <<configVars, sessionVars, memberVars, controlVars, ackVars, wokenBy>>

vars == <<retryVars, clientVars>>

-----------------------------------------------------------------------------
(* Bounds of the model *)

\* largest configured number of retries explored for the driver alone
MaxRetries == 4
\* how many times run() is invoked on one driver
MaxRuns == 2
\* how many requests one session sends
MaxTotal == 3
\* largest pipeline_depth_count
MaxPipelineCount == 3
\* how many latency samples one session records
MaxSamples == 4

\* growth rates and start timeouts (ms) the driver is configured with
Rates == {1, 3, 5}
StartTimeouts == {1, 10}

-----------------------------------------------------------------------------
(* Futures and errors *)

\* A completed future: kind "ok" or the exception type; origin tells who made
\* the exception, attempt which invocation of func it belongs to (0: none).
Outcome(kind, origin, attempt) ==
    [kind |-> kind, origin |-> origin, attempt |-> attempt]

NoFuture == Outcome("none", "none", 0)

\* seastar::make_exception_future<>(RPCDispatcher::RequestTimeoutException())
\* as run() stores it before the first attempt
DefaultError == Outcome("RequestTimeout", "default", 0)

\* make_exception_future<>(DuplicateExecutionException())
DuplicateError == Outcome("DuplicateExecution", "run", 0)

\* what the future of func can complete with
FuncOutcomes == {"ok", "RequestTimeout", "OtherError", "DispatcherShutdown"}

-----------------------------------------------------------------------------
(* ExponentialBackoffStrategy *)

\* The constructor and the with*() setters: attempt counter zero, nothing
\* succeeded, not used, and the configured retries, rate and start timeout.
RetryConfigured(retries, rate, timeout) ==
    /\ _retries = retries
    /\ _rate = rate
    /\ _currentTimeout = timeout
    /\ startTimeout = timeout
    /\ _try = 0
    /\ _success = FALSE
    /\ _used = FALSE
    /\ runPc = "idle"
    /\ resultPtr = NoFuture
    /\ runResult = NoFuture
    /\ runs = 0
    /\ funcLog = << >>
    /\ callsBefore = 0

\* run(): the duplicate-use check (lines 72-75)
AlreadyUsed == _used

\* variant: the loop only counts tries and ignores _success
RetryLoopStops_IgnoresSuccess == _try >= _retries

\* variant: off by one in the comparison with _retries
RetryLoopStops_OffByOne == _success \/ _try > _retries

\* the stop condition of do_until (line 79)
RetryLoopStops == _success \/ _try >= _retries

\* variant: the growth the class comment documents, timeout * rate
NextTimeout_ByRate(timeout, try) == timeout * _rate

\* this->_currentTimeout *= this->_try  (line 82), _try already incremented
NextTimeout(timeout, try) == timeout * try

\* handle_exception_type(DispatcherShutdown&) (lines 86-90): what the future
\* of func has become when then_wrapped sees it
AfterShutdownHandler(kind, attempt) ==
    IF kind = "DispatcherShutdown"
    THEN Outcome("RequestTimeout", "shutdown", attempt)
    ELSE Outcome(kind, "func", attempt)

\* variant: the handler forgets to fast-forward the try counter
TryAfterHandler_NoFastForward(kind) == _try

\* the try counter after handle_exception_type (line 88: ff to the last retry)
TryAfterHandler(kind) ==
    IF kind = "DispatcherShutdown" THEN _retries ELSE _try

\* variant: a failed round does not replace an error stored earlier
StoredResult_KeepsFirstError(previous, fut) ==
    IF fut.kind = "ok" \/ previous = DefaultError THEN fut ELSE previous

\* then_wrapped (lines 91-99): the future that resultPtr holds afterwards
StoredResult(previous, fut) == fut

\* run() is invoked (lines 70-77)
RunInvoke ==
    /\ runPc \in {"idle", "done"}
    /\ runs < MaxRuns
    /\ runs' = runs + 1
    /\ callsBefore' = Len(funcLog)
    /\ IF AlreadyUsed
       THEN /\ runPc' = "done"
            /\ runResult' = DuplicateError
            /\ UNCHANGED resultPtr
       ELSE /\ runPc' = "loop"
            /\ runResult' = NoFuture
            /\ resultPtr' = DefaultError
    /\ UNCHANGED <<_retries, _try, _rate, _currentTimeout, _success, _used,
                   startTimeout, funcLog>>

\* do_until finds its stop condition true; the outer then_wrapped returns
\* the stored result (lines 79, 100-104)
RunFinish ==
    /\ runPc = "loop"
    /\ RetryLoopStops
    /\ runPc' = "done"
    /\ runResult' = resultPtr
    /\ UNCHANGED <<_retries, _try, _rate, _currentTimeout, _success, _used,
                   resultPtr, runs, startTimeout, funcLog, callsBefore>>

\* the body of the loop up to the call of func (lines 80-85)
RunAttempt ==
    /\ runPc = "loop"
    /\ ~RetryLoopStops
    /\ _try' = _try + 1
    /\ _currentTimeout' = NextTimeout(_currentTimeout, _try')
    /\ funcLog' = Append(funcLog, [remaining |-> _retries - _try',
                                   timeout   |-> _currentTimeout',
                                   outcome   |-> "pending"])
    /\ runPc' = "awaiting"
    /\ UNCHANGED <<_retries, _rate, _success, _used, resultPtr, runResult,
                   runs, startTimeout, callsBefore>>

\* the future of func completes with `kind` (lines 86-99)
RunAttemptDone(kind) ==
    /\ runPc = "awaiting"
    /\ LET fut == AfterShutdownHandler(kind, Len(funcLog))
       IN  /\ _try' = TryAfterHandler(kind)
           /\ _success' = (fut.kind = "ok")
           /\ resultPtr' = StoredResult(resultPtr, fut)
    /\ funcLog' = [funcLog EXCEPT ![Len(funcLog)].outcome = kind]
    /\ runPc' = "loop"
    /\ UNCHANGED <<_retries, _rate, _currentTimeout, _used, runResult, runs,
                   startTimeout, callsBefore>>

FuncCompletes == \E kind \in FuncOutcomes : RunAttemptDone(kind)

-----------------------------------------------------------------------------
(* Client: configuration and arithmetic *)

\* pipeline_depth_mbytes is multiplied by 1024 * 1024 (line 50)
MByte == 1024 * 1024

\* sizeof(_session.sessionID) + sizeof(_session.totalCount) (line 276)
Padding == 16

\* The session counters are uint64_t.  2^64 is beyond the integers of the
\* model checker, so the modulus is scaled down to a value far above every
\* counter the bounds allow: a difference that wraps still becomes a value
\* larger than every total, which is all the comparisons in the code see.
U64Modulus == 2^30

U64Add(a, b) == (a + b) % U64Modulus

U64Sub(a, b) == (a - b) % U64Modulus

\* request_size values: the header alone, one byte of data, half of the
\* pipeline credit of one MByte, and one byte less than that credit
RequestSizes == {16, 17, 524288, 1048575}

\* pipeline_depth_mbytes values
PipelineMBytes == {0, 1}

\* shard ids and the number of tcp_remotes entries
ShardIds == {0, 1}
RemoteCounts == {1}

\* the session id the server assigns, and the ids acks can carry
ServerSessionIds == {1}
AckSessionIds == {1, 2}

\* the data endpoint URL the bootstrap endpoint answers with
DataUrls == {"tcp+k2rpc://1.2.3.4:9"}

\* RPC().getTXEndpoint(url): the endpoint made for a URL
TXEndpoint(url) == [url |-> url]

\* the retry driver _discovery() configures (line 142)
DiscoveryRetries == 10
DiscoveryStartTimeout == 10
DiscoveryRate == 3

\* The Client constructor (lines 34-55) with a value-initialised session.
ClientConstructed(id, remotes, size, mbytes, count) ==
    /\ myID = id
    /\ _tcpRemotes = remotes
    /\ responseSize = size
    /\ pipelineSize = mbytes * MByte
    /\ pipelineCount = count
    /\ sessionID = 0
    /\ client = TXEndpoint("")
    /\ totalSize = 0
    /\ totalCount = 0
    /\ unackedSize = 0
    /\ unackedCount = 0
    /\ _stopped = TRUE
    /\ _haveSendPromise = FALSE
    /\ _sendProm = "empty"
    /\ _stopPromise = "unset"
    /\ _timer = "idle"
    /\ _lastAckedTotal = 0
    /\ _requestIssueTimes = << >>
    /\ ackObserver = FALSE
    /\ startPc = "init"
    /\ sendPc = "idle"
    /\ rpc = "none"
    /\ stopFuture = "none"
    /\ remoteFault = "none"
    /\ lastAck = << >>
    /\ maxAcked = 0
    /\ _requestLatency = 0
    /\ wokenBy = "none"
    /\ failure = "none"

\* K2ASSERT failed or a promise was misused: the process has ended
Alive == failure = "none"

\* variant: set_value() leaves the promise as it was
PromiseAfterSet_Unchanged(prom) == prom

\* seastar::promise<>::set_value(): the promise afterwards
PromiseAfterSet(prom) == "fulfilled"

\* set_value() on a promise that already holds a value is an error
FailureAfterSet(prom) ==
    IF prom = "fulfilled" THEN "promise fulfilled twice" ELSE failure

\* What set_value() can end in.  On a promise that already holds a value it
\* is a misuse of the promise: depending on the build the process ends there
\* or the call passes unnoticed.
SetValueOutcomes(prom) ==
    IF prom = "fulfilled" THEN {failure, FailureAfterSet(prom)} ELSE {failure}

\* variant: the flag is left set when the awakener is fulfilled
HaveSendPromiseAfterFulfil_Kept == TRUE

\* _haveSendPromise = false, before _sendProm.set_value() (lines 43, 241)
HaveSendPromiseAfterFulfil == FALSE

-----------------------------------------------------------------------------
(* Client: the send loop (lines 250-288) *)

\* variant: only the count credit is checked
canSend_CountOnly == unackedCount < pipelineCount

\* variant: the count credit is compared with <=
canSend_OffByOne ==
    unackedSize < pipelineSize /\ unackedCount <= pipelineCount

canSend ==
    unackedSize < pipelineSize /\ unackedCount < pipelineCount

\* variant: the byte total is not advanced with the other three counters
send_TotalSizeForgotten ==
    IF ~(Padding < responseSize)
    THEN /\ failure' = "invalid padding"
         /\ UNCHANGED <<totalSize, totalCount, unackedSize, unackedCount,
                        _requestIssueTimes, sendPc>>
    ELSE /\ totalSize' = totalSize
         /\ totalCount' = U64Add(totalCount, 1)
         /\ unackedSize' = U64Add(unackedSize, responseSize)
         /\ unackedCount' = U64Add(unackedCount, 1)
         /\ _requestIssueTimes' =
                [_requestIssueTimes EXCEPT ![totalCount' % pipelineCount] =
                                               totalCount']
         /\ sendPc' = "sending"
         /\ UNCHANGED failure

\* variant: the padding is checked after the counters were advanced
send_AssertsAfterCounters ==
    /\ totalSize' = U64Add(totalSize, responseSize)
    /\ totalCount' = U64Add(totalCount, 1)
    /\ unackedSize' = U64Add(unackedSize, responseSize)
    /\ unackedCount' = U64Add(unackedCount, 1)
    /\ IF ~(Padding < responseSize)
       THEN /\ failure' = "invalid padding"
            /\ UNCHANGED <<_requestIssueTimes, sendPc>>
       ELSE /\ _requestIssueTimes' =
                   [_requestIssueTimes EXCEPT ![totalCount' % pipelineCount] =
                                                  totalCount']
            /\ sendPc' = "sending"
            /\ UNCHANGED failure

\* send() (lines 274-288): counters, header, issue stamp
send ==
    IF ~(Padding < responseSize)
    THEN /\ failure' = "invalid padding"
         /\ UNCHANGED <<totalSize, totalCount, unackedSize, unackedCount,
                        _requestIssueTimes, sendPc>>
    ELSE /\ totalSize' = U64Add(totalSize, responseSize)
         /\ totalCount' = U64Add(totalCount, 1)
         /\ unackedSize' = U64Add(unackedSize, responseSize)
         /\ unackedCount' = U64Add(unackedCount, 1)
         /\ _requestIssueTimes' =
                [_requestIssueTimes EXCEPT ![totalCount' % pipelineCount] =
                                               totalCount']
         /\ sendPc' = "sending"
         /\ UNCHANGED failure

\* the body of the loop (lines 252-263); _stopped was found false
LoopBody ==
    IF canSend
    THEN /\ totalCount < MaxTotal
         /\ send
         /\ UNCHANGED <<_haveSendPromise, _sendProm>>
    ELSE /\ IF _haveSendPromise
            THEN /\ failure' = "no send promise"
                 /\ UNCHANGED <<_haveSendPromise, _sendProm, sendPc>>
            ELSE /\ _haveSendPromise' = TRUE
                 /\ _sendProm' = "pending"
                 /\ sendPc' = "waiting"
                 /\ UNCHANGED failure
         /\ UNCHANGED <<totalSize, totalCount, unackedSize, unackedCount,
                        _requestIssueTimes>>

\* variant: the loop looks at _stopped only when there is no credit
SendLoopStep_SendsWhileCredit ==
    /\ Alive
    /\ sendPc = "check"
    /\ IF _stopped /\ ~canSend
       THEN /\ sendPc' = "done"
            /\ startPc' = "finally"
            /\ UNCHANGED <<totalSize, totalCount, unackedSize, unackedCount,
                           _requestIssueTimes, _haveSendPromise, _sendProm,
                           failure>>
       ELSE /\ LoopBody
            /\ UNCHANGED startPc
    /\ UNCHANGED <<retryVars, configVars, ackVars, wokenBy, sessionID, client, _stopped,
                   _stopPromise, _timer, _lastAckedTotal, ackObserver, rpc,
                   stopFuture, remoteFault>>

\* one evaluation of the stop condition and, if it is false, of the body
SendLoopStep ==
    /\ Alive
    /\ sendPc = "check"
    /\ IF _stopped
       THEN /\ sendPc' = "done"
            /\ startPc' = "finally"
            /\ UNCHANGED <<totalSize, totalCount, unackedSize, unackedCount,
                           _requestIssueTimes, _haveSendPromise, _sendProm,
                           failure>>
       ELSE /\ LoopBody
            /\ UNCHANGED startPc
    /\ UNCHANGED <<retryVars, configVars, ackVars, wokenBy, sessionID, client, _stopped,
                   _stopPromise, _timer, _lastAckedTotal, ackObserver, rpc,
                   stopFuture, remoteFault>>

\* the transport has taken the payload: the future of RPC().send() resolves
SendComplete ==
    /\ Alive
    /\ sendPc = "sending"
    /\ sendPc' = "check"
    /\ UNCHANGED <<retryVars, configVars, ackVars, wokenBy, sessionVars, memberVars,
                   ackObserver, startPc, rpc, stopFuture, remoteFault, failure>>

\* the future of _sendProm resolves and the loop goes on
SenderWakes ==
    /\ Alive
    /\ sendPc = "waiting"
    /\ _sendProm = "fulfilled"
    /\ sendPc' = "check"
    /\ wokenBy' = "none"
    /\ UNCHANGED <<retryVars, configVars, ackVars, sessionVars, memberVars,
                   ackObserver, startPc, rpc, stopFuture, remoteFault, failure>>

-----------------------------------------------------------------------------
(* Client: the ACK observer (lines 206-245) *)

Triangular(n) == (n * (n + 1)) \div 2

Ack(sid, count, size, checksum) ==
    [sessionID |-> sid, totalCount |-> count, totalSize |-> size,
     checksum |-> checksum]

\* The acks that can arrive: any session id, every cumulative count and byte
\* total up to one request more than was sent, right and wrong checksums.
AckCounts == 0..(totalCount + 1)

ChecksumErrors == {0, 1}

AckOf(sid, count, sent, bad) ==
    Ack(sid, count, sent * responseSize, Triangular(count) + bad)

AckSpace ==
    { AckOf(sid, count, sent, bad) :
        sid \in AckSessionIds, count \in AckCounts, sent \in AckCounts,
        bad \in ChecksumErrors }

\* variant: the check of the count is missing
AckDropped_NoCountCheck(ack) ==
    \/ ack.sessionID # sessionID
    \/ ack.totalSize > totalSize

\* variant: the check of the byte total is missing
AckDropped_NoSizeCheck(ack) ==
    \/ ack.sessionID # sessionID
    \/ ack.totalCount > totalCount

\* variant: the branch that warns of a checksum mismatch returns as well
AckDropped_ChecksumReturns(ack) ==
    \/ ack.sessionID # sessionID
    \/ ack.totalCount > totalCount
    \/ ack.totalSize > totalSize
    \/ ack.checksum # (ack.totalCount * (ack.totalCount + 1)) \div 2

\* variant: the branch that warns of an old ack returns as well
AckDropped_OldAckReturns(ack) ==
    \/ ack.sessionID # sessionID
    \/ ack.totalCount > totalCount
    \/ ack.totalCount <= _lastAckedTotal
    \/ ack.totalSize > totalSize

\* the three returns of the observer (lines 211-229)
AckDropped(ack) ==
    \/ ack.sessionID # sessionID
    \/ ack.totalCount > totalCount
    \/ ack.totalSize > totalSize

\* the warning for an old ack (lines 221-224); the ack is processed all the same
AckTooOld(ack) == ack.totalCount <= _lastAckedTotal

\* variant: the credit is reduced by the ack's totals instead of recomputed
UnackedAfterAck_Decrement(total, unacked, acked) == U64Sub(unacked, acked)

\* lines 238-239: the credit in use after an accepted ack
UnackedAfterAck(total, unacked, acked) == U64Sub(total, acked)

\* The latency loop (lines 233-237) for `ack`: one record per iteration
\* with the request id, the slot read and the issue stamp found in it.
LatencySamples(ack) ==
    LET first == U64Sub(totalCount, unackedCount)
        n == IF ack.totalCount > first THEN ack.totalCount - first ELSE 0
    IN  [i \in 1..n |->
            LET reqid == first + i - 1
                idx == reqid % pipelineCount
            IN  [reqid |-> reqid, idx |-> idx,
                 issued |-> _requestIssueTimes[idx]]]

\* What one call of the observer does, as a function of the state it finds:
\* the session counters afterwards, the samples added and whether _sendProm
\* is fulfilled (lines 208-244).
AckOutcome(hasPayload, ack) ==
    IF ~hasPayload \/ AckDropped(ack)
    THEN [accepted |-> FALSE,
          totalCount |-> totalCount,
          totalSize |-> totalSize,
          unackedCount |-> unackedCount,
          unackedSize |-> unackedSize,
          samples |-> << >>,
          fulfils |-> FALSE]
    ELSE [accepted |-> TRUE,
          totalCount |-> totalCount,
          totalSize |-> totalSize,
          unackedCount |->
              UnackedAfterAck(totalCount, unackedCount, ack.totalCount),
          unackedSize |->
              UnackedAfterAck(totalSize, unackedSize, ack.totalSize),
          samples |-> LatencySamples(ack),
          fulfils |-> _haveSendPromise]

\* the credit guards of canSend() for given amounts in use
HasCredit(size, count) == size < pipelineSize /\ count < pipelineCount

AckObserver(hasPayload, ack) ==
    /\ Alive
    /\ ackObserver
    /\ LET out == AckOutcome(hasPayload, ack)
       IN  /\ totalCount' = out.totalCount
           /\ totalSize' = out.totalSize
           /\ unackedCount' = out.unackedCount
           /\ unackedSize' = out.unackedSize
           /\ _requestLatency' = _requestLatency + Len(out.samples)
           /\ _requestLatency' <= MaxSamples
           /\ IF out.fulfils
              THEN /\ _haveSendPromise' = HaveSendPromiseAfterFulfil
                   /\ _sendProm' = PromiseAfterSet(_sendProm)
                   /\ failure' \in SetValueOutcomes(_sendProm)
                   /\ wokenBy' =
                          IF ~_stopped
                             /\ HasCredit(out.unackedSize, out.unackedCount)
                          THEN "ack with credit" ELSE "ack"
              ELSE UNCHANGED <<_haveSendPromise, _sendProm, failure, wokenBy>>
           /\ IF out.accepted
              THEN /\ lastAck' = <<[totalCount |-> ack.totalCount,
                                      totalSize |-> ack.totalSize]>>
                   /\ maxAcked' = IF ack.totalCount > maxAcked
                                  THEN ack.totalCount ELSE maxAcked
              ELSE UNCHANGED <<lastAck, maxAcked>>
    /\ UNCHANGED <<retryVars, configVars, sessionID, client, _stopped,
                   _stopPromise, _timer, _lastAckedTotal,
                   _requestIssueTimes, controlVarsButFailure>>

AckArrives ==
    \/ \E ack \in AckSpace : AckObserver(TRUE, ack)
    \/ AckObserver(FALSE, Ack(0, 0, 0, 0))

-----------------------------------------------------------------------------
(* Client: start(), _discovery(), _startSession(), _benchmark() *)

\* the strategy object _discovery() makes; it is released when the finally
\* of _discovery() has run (lines 141-142, 171-173)
StrategyMade ==
    /\ _retries' = DiscoveryRetries
    /\ _rate' = DiscoveryRate
    /\ _currentTimeout' = DiscoveryStartTimeout
    /\ startTimeout' = DiscoveryStartTimeout
    /\ _try' = 0
    /\ _success' = FALSE
    /\ _used' = FALSE
    /\ runPc' = "idle"
    /\ resultPtr' = NoFuture
    /\ runResult' = NoFuture
    /\ runs' = 0
    /\ funcLog' = << >>
    /\ callsBefore' = 0

\* the ways the bootstrap endpoint can fail to answer
DiscoveryFaults == {"empty", "timeout"}

\* variant: only a shard id above the number of remotes has no remote
NoRemoteForShard_Exceeds == myID > _tcpRemotes

\* myID >= _tcpRemotes.size() (line 136)
NoRemoteForShard == myID >= _tcpRemotes

\* start() up to the first suspension (lines 97-100, 133-143)
Start ==
    /\ Alive
    /\ startPc = "init"
    /\ stopFuture = "none"
    /\ _stopped' = FALSE
    /\ IF NoRemoteForShard
       THEN /\ startPc' = "failed"
            /\ UNCHANGED <<retryVars, remoteFault>>
       ELSE /\ startPc' = "discovery"
            /\ RunInvoke
            /\ remoteFault' \in DiscoveryFaults
    /\ UNCHANGED <<configVars, ackVars, wokenBy, sessionVars, _haveSendPromise, _sendProm,
                   _stopPromise, _timer, _lastAckedTotal, _requestIssueTimes,
                   ackObserver, sendPc, rpc, stopFuture, failure>>

\* the retry loop calls the function of _discovery() (lines 143-148)
DiscoveryAttempt ==
    /\ Alive
    /\ startPc = "discovery"
    /\ RunAttempt
    /\ rpc' = IF _stopped THEN "rejected" ELSE "GET_DATA_URL"
    /\ UNCHANGED <<configVars, ackVars, wokenBy, sessionVars, memberVars, ackObserver, startPc,
                   sendPc, stopFuture, remoteFault, failure>>

\* "we were stopped": the function returned a failed future (line 146)
DiscoveryRejected ==
    /\ Alive
    /\ startPc = "discovery"
    /\ rpc = "rejected"
    /\ RunAttemptDone("OtherError")
    /\ rpc' = "none"
    /\ UNCHANGED <<configVars, ackVars, wokenBy, sessionVars, memberVars, ackObserver, startPc,
                   sendPc, stopFuture, remoteFault, failure>>

\* what sendRequest(GET_DATA_URL) can complete with: the URL, the shutdown
\* of the dispatcher, or the fault of the bootstrap endpoint, which fails
\* the same way ("empty" payload or "timeout") during one discovery
DiscoveryResponses == {"url", "shutdown", remoteFault}

\* variant: an empty payload is not taken for a failure
DiscoveryOutcome_EmptyIsOk(resp) ==
    IF _stopped THEN "ok"
    ELSE CASE resp \in {"url", "empty"} -> "ok"
           [] resp = "timeout"  -> "RequestTimeout"
           [] resp = "shutdown" -> "DispatcherShutdown"

\* the future of the function of _discovery() (lines 149-169)
DiscoveryOutcome(resp) ==
    IF _stopped THEN "ok"
    ELSE CASE resp = "url"      -> "ok"
           [] resp = "empty"    -> "OtherError"
           [] resp = "timeout"  -> "RequestTimeout"
           [] resp = "shutdown" -> "DispatcherShutdown"

\* the GET_DATA_URL request completes (lines 149-169, then 86-99)
DiscoveryResponse(resp, url) ==
    /\ Alive
    /\ startPc = "discovery"
    /\ rpc = "GET_DATA_URL"
    /\ RunAttemptDone(DiscoveryOutcome(resp))
    /\ client' = IF ~_stopped /\ resp = "url" THEN TXEndpoint(url) ELSE client
    /\ rpc' = "none"
    /\ UNCHANGED <<configVars, ackVars, wokenBy, sessionID, totalSize, totalCount, unackedSize,
                   unackedCount, memberVars, ackObserver, startPc, sendPc,
                   stopFuture, remoteFault, failure>>

DiscoveryResponds ==
    \E resp \in DiscoveryResponses, url \in DataUrls :
        DiscoveryResponse(resp, url)

\* the retry loop of _discovery() ends (lines 79, 100-104)
DiscoveryLoopEnds ==
    /\ Alive
    /\ startPc = "discovery"
    /\ RunFinish
    /\ UNCHANGED clientVars

\* _discovery() has completed: its finally, the first continuation of
\* start() and _startSession() up to its request (lines 171-173, 100-104,
\* 176-184)
DiscoveryDone ==
    /\ Alive
    /\ startPc = "discovery"
    /\ runPc = "done"
    /\ StrategyMade
    /\ IF runResult.kind # "ok"
       THEN /\ startPc' = "failed"
            /\ UNCHANGED <<_requestIssueTimes, _lastAckedTotal, rpc>>
       ELSE IF _stopped
       THEN /\ startPc' = "finally"
            /\ UNCHANGED <<_requestIssueTimes, _lastAckedTotal, rpc>>
       ELSE /\ _requestIssueTimes' = [i \in 0..(pipelineCount - 1) |-> 0]
            /\ _lastAckedTotal' = 0
            /\ rpc' = "START_SESSION"
            /\ startPc' = "session"
    /\ remoteFault' = "none"
    /\ UNCHANGED <<configVars, ackVars, wokenBy, sessionVars, _stopped, _haveSendPromise,
                   _sendProm, _stopPromise, _timer, ackObserver, sendPc,
                   stopFuture, failure>>

\* what sendRequest(START_SESSION) can complete with
SessionResponses == {"ack", "empty", "timeout"}

\* the START_SESSION request completes (lines 185-200)
SessionResponse(resp, sid) ==
    /\ Alive
    /\ startPc = "session"
    /\ rpc = "START_SESSION"
    /\ rpc' = "none"
    /\ IF resp = "timeout" \/ (~_stopped /\ resp = "empty")
       THEN /\ startPc' = "failed"
            /\ UNCHANGED sessionID
       ELSE /\ startPc' = "sessionDone"
            /\ sessionID' = IF _stopped THEN sessionID ELSE sid
    /\ UNCHANGED <<retryVars, configVars, ackVars, wokenBy, client, totalSize, totalCount,
                   unackedSize, unackedCount, memberVars, ackObserver, sendPc,
                   stopFuture, remoteFault, failure>>

SessionResponds ==
    \E resp \in SessionResponses, sid \in ServerSessionIds :
        SessionResponse(resp, sid)

\* the second continuation of start() and _benchmark() up to the first
\* suspension of its loop (lines 105-109, 203-263)
BenchmarkBegin ==
    /\ Alive
    /\ startPc = "sessionDone"
    /\ IF _stopped
       THEN /\ startPc' = "finally"
            /\ UNCHANGED <<ackObserver, _timer, totalSize, totalCount,
                           unackedSize, unackedCount, _requestIssueTimes,
                           _haveSendPromise, _sendProm, sendPc, failure>>
       ELSE /\ startPc' = "benchmark"
            /\ ackObserver' = TRUE
            /\ _timer' = "armed"
            /\ LoopBody
    /\ UNCHANGED <<retryVars, configVars, ackVars, wokenBy, sessionID, client, _stopped,
                   _stopPromise, _lastAckedTotal, rpc, stopFuture, remoteFault>>

\* variant: the handler absorbs the error and leaves _stopped alone
HandleException_NoStop ==
    /\ Alive
    /\ startPc = "failed"
    /\ startPc' = "finally"
    /\ UNCHANGED <<retryVars, configVars, ackVars, wokenBy, sessionVars, _stopped,
                   _haveSendPromise, _sendProm, _stopPromise, _timer,
                   _lastAckedTotal, _requestIssueTimes, ackObserver, sendPc,
                   rpc, stopFuture, remoteFault, failure>>

\* handle_exception of start() (lines 110-114)
HandleException ==
    /\ Alive
    /\ startPc = "failed"
    /\ _stopped' = TRUE
    /\ startPc' = "finally"
    /\ UNCHANGED <<retryVars, configVars, ackVars, wokenBy, sessionVars, _haveSendPromise,
                   _sendProm, _stopPromise, _timer, _lastAckedTotal,
                   _requestIssueTimes, ackObserver, sendPc, rpc, stopFuture,
                   remoteFault, failure>>

\* finally of start(): the report, then the stop promise (lines 114-129)
StartFinally ==
    /\ Alive
    /\ startPc = "finally"
    /\ _stopped' = TRUE
    /\ _stopPromise' = "set"
    /\ startPc' = "finished"
    /\ UNCHANGED <<retryVars, configVars, ackVars, wokenBy, sessionVars, _haveSendPromise,
                   _sendProm, _timer, _lastAckedTotal, _requestIssueTimes,
                   ackObserver, sendPc, rpc, stopFuture, remoteFault, failure>>

-----------------------------------------------------------------------------
(* Client: the timer callback and gracefulStop() *)

\* the callback of _timer (lines 40-46)
TimerExpires ==
    /\ Alive
    /\ _timer = "armed"
    /\ _timer' = "fired"
    /\ _stopped' = TRUE
    /\ IF _haveSendPromise
       THEN /\ _haveSendPromise' = HaveSendPromiseAfterFulfil
            /\ _sendProm' = PromiseAfterSet(_sendProm)
            /\ failure' \in SetValueOutcomes(_sendProm)
            /\ wokenBy' = "timer"
       ELSE UNCHANGED <<_haveSendPromise, _sendProm, failure, wokenBy>>
    /\ UNCHANGED <<retryVars, configVars, ackVars, sessionVars, _stopPromise,
                   _lastAckedTotal, _requestIssueTimes, ackObserver, startPc,
                   sendPc, rpc, stopFuture, remoteFault>>

\* variant: the observers are unregistered before _stopped is looked at
GracefulStop_UnregistersFirst ==
    /\ Alive
    /\ ackObserver' = FALSE
    /\ IF _stopped
       THEN /\ stopFuture' = "ready"
            /\ UNCHANGED <<_stopped, _sendProm, failure, wokenBy>>
       ELSE /\ _stopped' = TRUE
            /\ IF _haveSendPromise
               THEN /\ _sendProm' = PromiseAfterSet(_sendProm)
                    /\ failure' \in SetValueOutcomes(_sendProm)
                    /\ wokenBy' = "stop"
               ELSE UNCHANGED <<_sendProm, failure, wokenBy>>
            /\ stopFuture' = "promise"
    /\ UNCHANGED <<retryVars, configVars, ackVars, sessionVars, _haveSendPromise,
                   _stopPromise, _timer, _lastAckedTotal, _requestIssueTimes,
                   startPc, sendPc, rpc, remoteFault>>

\* gracefulStop() (lines 63-76)
GracefulStop ==
    /\ Alive
    /\ IF _stopped
       THEN /\ stopFuture' = "ready"
            /\ UNCHANGED <<_stopped, ackObserver, _sendProm, failure, wokenBy>>
       ELSE /\ _stopped' = TRUE
            /\ ackObserver' = FALSE
            /\ IF _haveSendPromise
               THEN /\ _sendProm' = PromiseAfterSet(_sendProm)
                    /\ failure' \in SetValueOutcomes(_sendProm)
                    /\ wokenBy' = "stop"
               ELSE UNCHANGED <<_sendProm, failure, wokenBy>>
            /\ stopFuture' = "promise"
    /\ UNCHANGED <<retryVars, configVars, ackVars, sessionVars, _haveSendPromise,
                   _stopPromise, _timer, _lastAckedTotal, _requestIssueTimes,
                   startPc, sendPc, rpc, remoteFault>>

-----------------------------------------------------------------------------
(* Specifications *)

\* the driver alone; the client stays as constructed
InitRetry ==
    /\ \E retries \in 0..MaxRetries, rate \in Rates, timeout \in StartTimeouts :
           RetryConfigured(retries, rate, timeout)
    /\ ClientConstructed(0, 1, 512, 200, 10)

DriverInvoke == RunInvoke /\ UNCHANGED clientVars

DriverFinish == RunFinish /\ UNCHANGED clientVars

DriverAttempt == RunAttempt /\ UNCHANGED clientVars

DriverFuncCompletes == FuncCompletes /\ UNCHANGED clientVars

NextRetry ==
    \/ DriverInvoke
    \/ DriverFinish
    \/ DriverAttempt
    \/ DriverFuncCompletes

SpecRetry == InitRetry /\ [][NextRetry]_vars

\* every future handed to the driver completes, and the reactor runs every
\* continuation that is ready
FairSpecRetry ==
    /\ SpecRetry
    /\ WF_vars(DriverFinish)
    /\ WF_vars(DriverAttempt)
    /\ WF_vars(DriverFuncCompletes)

\* one shard's client, for every configuration
Init ==
    /\ \E id \in ShardIds, remotes \in RemoteCounts, size \in RequestSizes,
          mbytes \in PipelineMBytes, count \in 1..MaxPipelineCount :
           ClientConstructed(id, remotes, size, mbytes, count)
    /\ RetryConfigured(DiscoveryRetries, DiscoveryRate, DiscoveryStartTimeout)

Next ==
    \/ Start
    \/ DiscoveryAttempt
    \/ DiscoveryRejected
    \/ DiscoveryResponds
    \/ DiscoveryLoopEnds
    \/ DiscoveryDone
    \/ SessionResponds
    \/ BenchmarkBegin
    \/ SendLoopStep
    \/ SendComplete
    \/ SenderWakes
    \/ AckArrives
    \/ TimerExpires
    \/ GracefulStop
    \/ HandleException
    \/ StartFinally

Spec == Init /\ [][Next]_vars

\* An ACK as a server that follows the protocol sends it: for this session,
\* for requests that were issued, not older than an ack delivered before,
\* and with the bytes of the requests it counts.
WellFormedAck(ack) ==
    /\ ack.sessionID = sessionID
    /\ ack.totalCount <= totalCount
    /\ ack.totalCount >= maxAcked
    /\ ack.totalSize = ack.totalCount * responseSize

\* the observer is called with a well-formed ack, or without a payload
WellFormedAckArrives ==
    \/ \E ack \in AckSpace : WellFormedAck(ack) /\ AckObserver(TRUE, ack)
    \/ AckObserver(FALSE, Ack(0, 0, 0, 0))

\* configurations whose byte credit is a multiple of the request size
InitWellFormed ==
    /\ Init
    /\ pipelineSize % responseSize = 0

NextWellFormed ==
    \/ Start
    \/ DiscoveryAttempt
    \/ DiscoveryRejected
    \/ DiscoveryResponds
    \/ DiscoveryLoopEnds
    \/ DiscoveryDone
    \/ SessionResponds
    \/ BenchmarkBegin
    \/ SendLoopStep
    \/ SendComplete
    \/ SenderWakes
    \/ WellFormedAckArrives
    \/ TimerExpires
    \/ GracefulStop
    \/ HandleException
    \/ StartFinally

\* one shard's client talking to a server that follows the protocol
SpecWellFormed == InitWellFormed /\ [][NextWellFormed]_vars

-----------------------------------------------------------------------------
(* Properties of the pipeline credit *)

\* C1: in every reachable state of a session unackedCount <= pipelineCount,
\* whatever acks the observer accepted.
C1_UnackedCountWithinPipeline == unackedCount <= pipelineCount

\* C2: in every reachable state unackedSize <= pipelineSize, for every
\* configuration with responseSize > 16 and pipelineSize > 0.
C2_UnackedSizeWithinPipeline ==
    (responseSize > Padding /\ pipelineSize > 0) => unackedSize <= pipelineSize

\* C3: totalCount >= unackedCount and totalSize >= unackedSize in every
\* reachable state: the subtractions of the observer never wrap.
C3_UnackedWithinTotals ==
    /\ totalCount >= unackedCount
    /\ totalSize >= unackedSize

\* an ack for every request sent but for no byte was accepted
C3_Witness ==
    /\ totalCount >= 2
    /\ unackedCount = 0
    /\ unackedSize = totalSize

\* C4: once the observer has accepted an ack, and until it accepts the
\* next one, totalCount - unackedCount is that ack's totalCount and
\* totalSize - unackedSize is its totalSize; in particular right after the
\* observer returned.
C4_AcceptedAckSetsCredit ==
    lastAck # << >> =>
        /\ totalCount - unackedCount = lastAck[1].totalCount
        /\ totalSize - unackedSize = lastAck[1].totalSize

\* an accepted ack has just woken the sender, which has not run since, and
\* part of what was sent is acknowledged
C4_Witness ==
    /\ lastAck # << >>
    /\ sendPc = "waiting"
    /\ _sendProm = "fulfilled"
    /\ ~_stopped
    /\ 0 < unackedCount
    /\ unackedCount < totalCount
    /\ unackedSize < totalSize
    /\ lastAck[1].totalSize # lastAck[1].totalCount * responseSize

-----------------------------------------------------------------------------
(* Properties of the ACK observer *)

\* the observer can be called: it is registered and the process runs
ObserverActive == Alive /\ ackObserver

\* the awakener of the sender is installed and not fulfilled
AwakenerPending == _haveSendPromise /\ _sendProm = "pending"

\* C11: an ack whose sessionID differs from the session's, or whose
\* totalCount exceeds the session's totalCount, or whose totalSize exceeds
\* the session's totalSize, leaves unackedCount, unackedSize, totalCount and
\* totalSize unchanged, adds no sample to the histogram and does not fulfil
\* the awakener.
C11_DroppedAckChangesNothing ==
    ObserverActive =>
        \A ack \in AckSpace :
            (\/ ack.sessionID # sessionID
             \/ ack.totalCount > totalCount
             \/ ack.totalSize > totalSize) =>
                LET out == AckOutcome(TRUE, ack)
                IN  /\ out.unackedCount = unackedCount
                    /\ out.unackedSize = unackedSize
                    /\ out.totalCount = totalCount
                    /\ out.totalSize = totalSize
                    /\ out.samples = << >>
                    /\ ~out.fulfils

\* the sender waits for credit with requests in flight, the histogram holds
\* samples, and acks of each of the three kinds can arrive
C11_Witness ==
    /\ ObserverActive
    /\ AwakenerPending
    /\ 0 < unackedCount
    /\ unackedCount < totalCount
    /\ _requestLatency > 0
    /\ \E ack \in AckSpace :
           ack.sessionID # sessionID /\ ack.totalCount <= totalCount
                                     /\ ack.totalSize <= totalSize
    /\ \E ack \in AckSpace :
           ack.sessionID = sessionID /\ ack.totalCount > totalCount
                                     /\ ack.totalSize <= totalSize
    /\ \E ack \in AckSpace :
           ack.sessionID = sessionID /\ ack.totalCount <= totalCount
                                     /\ ack.totalSize > totalSize

\* C12: _lastAckedTotal equals the largest totalCount carried by an ack
\* the observer has accepted in the session, zero before the first one.
C12_LastAckedTotalIsLargest == _lastAckedTotal = maxAcked

\* acks of the session that are older than an ack accepted before and whose
\* byte total is within bounds
StaleAcks ==
    { ack \in AckSpace : /\ ack.sessionID = sessionID
                         /\ ack.totalCount < maxAcked
                         /\ ack.totalSize <= totalSize }

\* what C13 says of every stale ack but for the growth of unackedCount: it
\* is not dropped, unackedCount becomes totalCount - ack.totalCount without
\* wrapping, and a pending awakener is fulfilled
StaleAckRecomputesCredit(ack) ==
    LET out == AckOutcome(TRUE, ack)
    IN  /\ out.accepted
        /\ out.unackedCount = totalCount - ack.totalCount
        /\ out.unackedCount >= 0
        /\ AwakenerPending => out.fulfils

\* C13 as stated: a stale ack is not dropped, unackedCount becomes
\* totalCount - ack.totalCount, which is larger than before and not
\* negative, and a pending awakener is fulfilled.
C13_StaleAckRaisesUnacked ==
    ObserverActive =>
        \A ack \in StaleAcks :
            /\ StaleAckRecomputesCredit(ack)
            /\ AckOutcome(TRUE, ack).unackedCount > unackedCount

\* C13 amended: as above, but unackedCount is larger than before only when
\* the stale ack is older than the ack accepted last.
C13_StaleAckRecomputesUnacked ==
    (ObserverActive /\ lastAck # << >>) =>
        \A ack \in StaleAcks :
            /\ StaleAckRecomputesCredit(ack)
            /\ ack.totalCount < lastAck[1].totalCount =>
                   AckOutcome(TRUE, ack).unackedCount > unackedCount

\* a stale ack was accepted last and woke the sender, which has more
\* requests in flight than the pipeline allows
C13_Witness ==
    /\ ObserverActive
    /\ lastAck # << >>
    /\ lastAck[1].totalCount < maxAcked
    /\ unackedCount = totalCount - lastAck[1].totalCount
    /\ unackedCount > pipelineCount
    /\ sendPc = "waiting"
    /\ _sendProm = "fulfilled"
    /\ wokenBy = "ack"

\* C14: every ack the observer accepts satisfies
\* ack.checksum = ack.totalCount * (ack.totalCount + 1) / 2.
C14_AcceptedAckHasChecksum ==
    ObserverActive =>
        \A ack \in AckSpace :
            AckOutcome(TRUE, ack).accepted =>
                ack.checksum = Triangular(ack.totalCount)

\* acks that pass the session, count and size checks with a wrong checksum
BadChecksumAcks ==
    { ack \in AckSpace : /\ ack.sessionID = sessionID
                         /\ ack.totalCount <= totalCount
                         /\ ack.totalSize <= totalSize
                         /\ ack.checksum # Triangular(ack.totalCount) }

\* C15: an ack with a wrong checksum that passes the session, count and
\* size checks is processed exactly like the same ack with the right
\* checksum: same samples, same credit, same fulfilment of the awakener.
C15_ChecksumIsIgnored ==
    ObserverActive =>
        \A ack \in BadChecksumAcks :
            LET good == [ack EXCEPT !.checksum = Triangular(ack.totalCount)]
            IN  /\ AckOutcome(TRUE, ack) = AckOutcome(TRUE, good)
                /\ AckOutcome(TRUE, ack).accepted

\* the sender waits, and an ack with a wrong checksum can arrive that adds
\* samples, frees credit and wakes the sender
C15_Witness ==
    /\ ObserverActive
    /\ AwakenerPending
    /\ \E ack \in BadChecksumAcks :
           LET out == AckOutcome(TRUE, ack)
           IN  /\ Len(out.samples) >= 2
               /\ out.unackedCount < unackedCount
               /\ out.unackedSize < unackedSize
               /\ out.fulfils

-----------------------------------------------------------------------------
(* Properties of the awakener, the timer and gracefulStop *)

\* the loop body is about to run and will take the branch that installs the
\* awakener: at the first iteration or at a later one
SenderInstallsNext ==
    /\ Alive
    /\ ~_stopped
    /\ ~canSend
    /\ sendPc = "check" \/ startPc = "sessionDone"

\* C16: at most one awakener is outstanding, and the assertion
\* !_haveSendPromise holds whenever the sender installs one, in every
\* interleaving of sender steps, acks, timer expiry and gracefulStop.
C16_OneAwakener ==
    /\ failure # "no send promise"
    /\ SenderInstallsNext => ~_haveSendPromise
    /\ _sendProm = "pending" => (_haveSendPromise /\ sendPc = "waiting")

\* the sender has installed an awakener again after an ack freed credit
C16_Witness ==
    /\ AwakenerPending
    /\ sendPc = "waiting"
    /\ ~_stopped
    /\ totalCount > pipelineCount
    /\ lastAck # << >>

WokenWithCredit ==
    /\ Alive
    /\ sendPc = "waiting"
    /\ wokenBy = "ack with credit"

\* acks that the observer accepts now and that leave credit to send
CreditAcks ==
    {ack \in AckSpace :
        LET out == AckOutcome(TRUE, ack)
        IN  out.accepted /\ HasCredit(out.unackedSize, out.unackedCount)}

\* C18 as stated: after an accepted ack restored credit on a shard that was
\* not stopped, the suspended sender's next action is to send, so until it
\* resumes the shard is still not stopped and canSend() still holds.
C18_AckWithCreditThenSend ==
    WokenWithCredit => (~_stopped /\ canSend)

\* C18, amended: an accepted ack that restores credit fulfils the pending
\* awakener and clears the flag, so the sender is resumable; and when the
\* sender evaluates the loop with the shard still not stopped and canSend()
\* still true, its step issues request totalCount + 1.  A timer expiry, a
\* gracefulStop or another ack delivered before the sender resumes can
\* take either condition away.
C18_AckWithCreditResumesSender ==
    /\ [](/\ (ObserverActive /\ ~_stopped /\ AwakenerPending) =>
               \A ack \in CreditAcks : AckOutcome(TRUE, ack).fulfils
          /\ WokenWithCredit => (_sendProm = "fulfilled" /\ ~_haveSendPromise))
    /\ [][(sendPc = "check" /\ sendPc' # "check" /\ ~_stopped /\ canSend) =>
              /\ sendPc' = "sending"
              /\ totalCount' = totalCount + 1
              /\ unackedCount' = unackedCount + 1
              /\ _requestIssueTimes'[totalCount' % pipelineCount] = totalCount'
          ]_vars

\* an ack has just restored credit for the suspended sender, which has sent
\* before and can send again
C18_Witness ==
    /\ WokenWithCredit
    /\ ~_stopped
    /\ canSend
    /\ totalCount > 0
    /\ totalCount < MaxTotal

\* C19: gracefulStop() on an instance whose _stopped is set returns a ready
\* future and changes nothing else: no observer is unregistered, no promise
\* is fulfilled, and start()'s chain stays where it was.
C19_StopOnStoppedChangesNothing ==
    [][(_stopped /\ GracefulStop) =>
          /\ stopFuture' = "ready"
          /\ UNCHANGED <<retryVars, configVars, sessionVars, memberVars, ackVars,
                         wokenBy, ackObserver, startPc, sendPc, rpc, remoteFault,
                         failure>>
      ]_vars

\* gracefulStop() has returned a ready future on a shard that the timer
\* stopped, while the observer is registered and start() has not finished
C19_Witness ==
    /\ stopFuture = "ready"
    /\ _timer = "fired"
    /\ ackObserver
    /\ startPc = "benchmark"
    /\ _stopPromise = "unset"

\* the future that gracefulStop() returned has completed
StopFutureCompleted ==
    \/ stopFuture = "ready"
    \/ stopFuture = "promise" /\ _stopPromise = "set"

\* C20: on an instance on which start() was invoked, the future returned by
\* gracefulStop() has completed only if the tail of start() has made the
\* report and fulfilled the stop promise.
C20_StopFutureAfterReport ==
    (startPc # "init" /\ StopFutureCompleted) =>
        (startPc = "finished" /\ _stopPromise = "set")

-----------------------------------------------------------------------------
(* Properties of the latency ring *)

\* send() stamps the slot with the number of the request it issues, so the
\* stamp of the request that iteration reqid of the latency loop accounts
\* for (the request sent after reqid others) is reqid + 1
IssueStampOf(reqid) == reqid + 1

\* C21: every latency sample of an accepted ack is computed from the issue
\* time that send() stored for the request the sample is recorded for; no
\* sample reads a slot never stamped or stamped for another request.
C21_SampleUsesOwnIssueTime ==
    ObserverActive =>
        \A ack \in AckSpace :
            LET samples == AckOutcome(TRUE, ack).samples
            IN  \A i \in 1..Len(samples) :
                    samples[i].issued = IssueStampOf(samples[i].reqid)

\* C22: the histogram holds one sample per acknowledged request: as many
\* samples as the largest totalCount an accepted ack carried, and never
\* more than totalCount.
C22_OneSamplePerAckedRequest ==
    /\ _requestLatency = maxAcked
    /\ _requestLatency <= totalCount

\* C23: the slot of every request issued and not yet covered by an accepted
\* ack still holds that request's stamp, and request k + pipelineCount is
\* issued only after an ack covering request k was accepted.
C23_SlotKeptUntilAcked ==
    /\ totalCount <= maxAcked + pipelineCount
    /\ \A k \in 1..totalCount :
           k > maxAcked => _requestIssueTimes[k % pipelineCount] = k

\* the ring has wrapped around while a request is still unacknowledged
C23_Witness ==
    /\ pipelineCount >= 2
    /\ totalCount > pipelineCount
    /\ maxAcked < totalCount
    /\ sendPc = "sending"

-----------------------------------------------------------------------------
(* Properties of the credit round trip and the send guard *)

\* the ack that covers the request sent last: its number as totalCount and
\* the bytes sent up to it as totalSize
CoveringAck == Ack(sessionID, totalCount, totalSize, Triangular(totalCount))

\* what the observer makes of the covering ack in the current state
RoundTrip == AckOutcome(TRUE, CoveringAck)

\* a step of the sender that issues a request
RequestIssued == totalCount' = totalCount + 1

\* C24 as stated: the ack covering the request just issued returns
\* unackedCount and unackedSize to the values they had before the request
\* was issued, from any reachable state.
C24_RoundTripRestoresCredit ==
    [][RequestIssued =>
          /\ RoundTrip'.accepted
          /\ RoundTrip'.unackedCount = unackedCount
          /\ RoundTrip'.unackedSize = unackedSize
      ]_vars

\* C24, amended: the ack covering the request just issued is accepted and
\* leaves unackedCount = 0 and unackedSize = 0, whatever was unacknowledged
\* before; these are the values before the issue if and only if nothing was
\* unacknowledged then.
C24_RoundTripClearsCredit ==
    [][RequestIssued =>
          /\ RoundTrip'.accepted
          /\ RoundTrip'.unackedCount = 0
          /\ RoundTrip'.unackedSize = 0
          /\ (RoundTrip'.unackedCount = unackedCount
                  /\ RoundTrip'.unackedSize = unackedSize)
              <=> (unackedCount = 0 /\ unackedSize = 0)
      ]_vars

\* a request was issued while another was unacknowledged, and the observer
\* can take its covering ack
C24_Witness ==
    /\ ObserverActive
    /\ sendPc = "sending"
    /\ unackedCount >= 2
    /\ RoundTrip.accepted
    /\ RoundTrip.unackedCount = 0

\* a step in which the sender runs the body of its loop: the first
\* iteration inside _benchmark(), or a later one
LoopBodyRuns ==
    /\ ~_stopped
    /\ \/ startPc = "sessionDone" /\ startPc' = "benchmark"
       \/ sendPc = "check" /\ sendPc' # "check"

\* C30: a request is issued only when unackedSize < pipelineSize and
\* unackedCount < pipelineCount hold immediately before; when either fails
\* the loop body installs the awakener and suspends without sending.
C30_SendOnlyWithCredit ==
    [][/\ RequestIssued =>
             /\ unackedSize < pipelineSize
             /\ unackedCount < pipelineCount
             /\ LoopBodyRuns
       /\ (LoopBodyRuns
              /\ ~(unackedSize < pipelineSize /\ unackedCount < pipelineCount)) =>
             /\ sendPc' = "waiting"
             /\ _haveSendPromise'
             /\ _sendProm' = "pending"
             /\ UNCHANGED <<totalCount, totalSize, unackedCount, unackedSize,
                            _requestIssueTimes, failure>>
      ]_vars

\* the sender has sent and is suspended because the byte guard alone failed
C30_Witness ==
    /\ sendPc = "waiting"
    /\ AwakenerPending
    /\ totalCount > 0
    /\ unackedCount < pipelineCount
    /\ unackedSize >= pipelineSize

\* C31: the totals change only by a send, which advances all four counters
\* for the same request: the counts by 1, the byte counters by
\* responseSize.  The totals never decrease, the request numbers are
\* consecutive, and totalSize = totalCount * responseSize always.
C31_CountersMoveTogether ==
    /\ [](totalSize = totalCount * responseSize)
    /\ [][/\ totalCount' >= totalCount
          /\ totalSize' >= totalSize
          /\ (totalCount' # totalCount \/ totalSize' # totalSize) =>
                /\ totalCount' = totalCount + 1
                /\ totalSize' = totalSize + responseSize
                /\ unackedCount' = unackedCount + 1
                /\ unackedSize' = unackedSize + responseSize
                /\ sendPc' = "sending"
          ]_vars

\* three requests were sent, the third is with the transport
C31_Witness ==
    /\ totalCount = 3
    /\ totalSize = 3 * responseSize
    /\ sendPc = "sending"
    /\ _requestIssueTimes[3 % pipelineCount] = 3

\* C32: once _stopped is set no request is issued: no step taken from a
\* stopped state advances the totals or hands a payload to the transport,
\* whoever woke the sender.
C32_NoSendAfterStop ==
    [][_stopped =>
          /\ totalCount' = totalCount
          /\ totalSize' = totalSize
          /\ sendPc' = "sending" => sendPc = "sending"
      ]_vars

\* the sender has left the loop of a stopped shard although there was
\* credit for a further request
C32_Witness ==
    /\ _stopped
    /\ sendPc = "done"
    /\ canSend
    /\ totalCount > 0
    /\ totalCount < MaxTotal

\* C33: no fulfilled promise is fulfilled again, and a set _haveSendPromise
\* denotes an awakener that is installed and not yet fulfilled.
C33_AwakenerFulfilledOnce ==
    /\ failure # "promise fulfilled twice"
    /\ _haveSendPromise => _sendProm = "pending"

\* C34: when every delivered ack is well-formed and pipelineSize is a
\* multiple of responseSize, the credit in use stays within the pipeline
\* and the byte credit in use is that of the unacknowledged requests.
C34_WellFormedAcksKeepCredit ==
    /\ unackedCount <= pipelineCount
    /\ unackedSize <= pipelineSize
    /\ unackedSize = unackedCount * responseSize

\* after an accepted ack the sender has filled the byte credit again
C34_Witness ==
    /\ lastAck # << >>
    /\ lastAck[1].totalCount > 0
    /\ unackedCount >= 2
    /\ unackedSize = pipelineSize
    /\ sendPc = "waiting"

\* request_size leaves no room for data after the header of a request
NoRoomForHeader == responseSize <= Padding

\* C35: with responseSize not larger than the header, the first send fails
\* its assertion before it changes a counter or hands a payload to the
\* transport: no request is ever sent and the four counters stay 0.
C35_InvalidPaddingSendsNothing ==
    /\ [](NoRoomForHeader =>
             /\ totalCount = 0
             /\ totalSize = 0
             /\ unackedCount = 0
             /\ unackedSize = 0
             /\ sendPc # "sending")
    /\ [][(NoRoomForHeader /\ LoopBodyRuns /\ canSend) =>
             /\ failure' = "invalid padding"
             /\ sendPc' = sendPc
             /\ UNCHANGED <<totalCount, totalSize, unackedCount, unackedSize,
                            _requestIssueTimes>>
          ]_vars

\* the first send of a session with request_size 16 has failed its assertion
C35_Witness ==
    /\ NoRoomForHeader
    /\ failure = "invalid padding"
    /\ startPc = "benchmark"
    /\ totalCount = 0
    /\ unackedSize = 0

-----------------------------------------------------------------------------
(* Properties of start-up and discovery *)

\* the position of start() in the order of the phases; a failed start-up
\* can leave every phase before the report
PhaseRank(pc) ==
    CASE pc = "init"        -> 0
      [] pc = "discovery"   -> 1
      [] pc = "session"     -> 2
      [] pc = "sessionDone" -> 3
      [] pc = "benchmark"   -> 4
      [] pc = "failed"      -> 5
      [] pc = "finally"     -> 6
      [] pc = "finished"    -> 7

\* discovery has stored a data endpoint in session.client
EndpointResolved == client.url \in DataUrls

\* the handshake has stored the session id of a non-empty SessionAck
SessionAcked == sessionID \in ServerSessionIds

\* _benchmark() has begun: observer, timer, send loop or a request
BenchmarkBegun ==
    \/ ackObserver
    \/ _timer # "idle"
    \/ sendPc # "idle"
    \/ totalCount > 0

\* C25: no request is sent and no ACK observer is registered before
\* discovery has resolved the data endpoint and the handshake has returned
\* a session; the handshake request needs the endpoint; the phases follow
\* each other in the order discovery, handshake, send loop, report, stop
\* promise.
C25_PhasesInOrder ==
    /\ [](/\ BenchmarkBegun => (EndpointResolved /\ SessionAcked)
          /\ (startPc = "session" \/ SessionAcked) => EndpointResolved
          /\ rpc = "GET_DATA_URL" => startPc = "discovery"
          /\ rpc = "START_SESSION" => startPc = "session"
          /\ sendPc \in {"check", "sending", "waiting"} => startPc = "benchmark"
          /\ sendPc = "done" => startPc \in {"finally", "finished"}
          /\ _stopPromise = "set" <=> startPc = "finished")
    /\ [][PhaseRank(startPc') >= PhaseRank(startPc)]_vars

\* a shard that went through every phase: requests were sent, the loop
\* ended, the report was made and the stop promise fulfilled
C25_Witness ==
    /\ startPc = "finished"
    /\ _stopPromise = "set"
    /\ sendPc = "done"
    /\ totalCount > 0
    /\ EndpointResolved
    /\ SessionAcked

\* C26: a start-up failure (no remote for the shard, discovery exhausted,
\* empty or failed handshake) is absorbed by start(): the handler can run
\* and sets _stopped, the finally can run and fulfils the stop promise,
\* which is fulfilled there and only once, and no request was or is sent.
C26_StartupFailureStops ==
    /\ [](/\ startPc = "failed" =>
                /\ Alive
                /\ ~BenchmarkBegun
                /\ _stopPromise = "unset"
                /\ ENABLED HandleException
          /\ (startPc = "finally" /\ ~BenchmarkBegun) =>
                /\ Alive
                /\ _stopped
                /\ _stopPromise = "unset"
                /\ ENABLED StartFinally
          /\ (startPc = "finished" /\ Alive) =>
                (_stopped /\ _stopPromise = "set"))
    /\ [][/\ (startPc = "failed" /\ startPc' # "failed") =>
                (startPc' = "finally" /\ _stopped')
          /\ _stopPromise' # _stopPromise =>
                (_stopPromise = "unset" /\ startPc = "finally"
                    /\ startPc' = "finished")
          /\ ~BenchmarkBegun /\ startPc \in {"failed", "finally", "finished"} =>
                ~BenchmarkBegun'
          ]_vars

\* a shard whose handshake failed has ended in Stopped: nobody called
\* gracefulStop, no request was sent, the stop promise is fulfilled
C26_Witness ==
    /\ startPc = "finished"
    /\ stopFuture = "none"
    /\ EndpointResolved
    /\ ~SessionAcked
    /\ ~BenchmarkBegun
    /\ _stopped
    /\ _stopPromise = "set"

\* C27: on a shard whose id is not below the number of bootstrap remotes
\* discovery fails at once: the retry driver is never run, its function is
\* never called, no GET_DATA_URL request is sent and start() goes from its
\* beginning straight to the failure path.
C27_NoRemoteFailsAtOnce ==
    myID >= _tcpRemotes =>
        /\ runs = 0
        /\ runPc = "idle"
        /\ ~_used
        /\ funcLog = << >>
        /\ rpc = "none"
        /\ ~EndpointResolved
        /\ startPc \in {"init", "failed", "finally", "finished"}

\* start() was invoked on a shard without a remote and has failed
C27_Witness ==
    /\ myID >= _tcpRemotes
    /\ startPc = "failed"
    /\ ~_stopped

-----------------------------------------------------------------------------
(* Properties of the retry driver *)

RECURSIVE Factorial(_)
Factorial(k) == IF k <= 1 THEN 1 ELSE k * Factorial(k - 1)

\* errors of func after which the driver may try again
RetryableErrors == {"RequestTimeout", "OtherError"}

LastCall == funcLog[Len(funcLog)]

\* the run in progress has invoked func
AttemptedThisRun == Len(funcLog) > callsBefore

\* C5: a second run() on the same driver, after the first run completed,
\* fails with DuplicateExecutionException and does not invoke func.
C5_SecondRunIsRejected ==
    (runs >= 2 /\ runPc = "done") =>
        (runResult = DuplicateError /\ Len(funcLog) = callsBefore)

\* the part of C5 the code does satisfy: a second run never invokes func
C5_SecondRunNeverInvokes == runs >= 2 => Len(funcLog) = callsBefore

\* C6 (safety part): func is invoked at most _retries times, and every
\* invocation but the last failed with an error that is not a shutdown (so
\* no invocation follows a success or a shutdown).
C6_AttemptsAreBounded ==
    /\ Len(funcLog) <= _retries
    /\ \A i \in 1..(Len(funcLog) - 1) : funcLog[i].outcome \in RetryableErrors

RunActive == runPc \in {"loop", "awaiting"}

\* C6: in one run func is invoked at most _retries times, again only after
\* a failure that is not a shutdown, never after a success; and a run whose
\* attempts all complete terminates.
C6_BoundedRetryTerminates ==
    /\ []C6_AttemptsAreBounded
    /\ (RunActive ~> runPc = "done")

\* a run that succeeded on a later attempt with retries to spare
C6_Witness ==
    /\ runPc = "done"
    /\ Len(funcLog) >= 2
    /\ Len(funcLog) < _retries
    /\ LastCall.outcome = "ok"

C9_ShutdownStopsRetries ==
    \A i \in 1..Len(funcLog) :
        funcLog[i].outcome = "DispatcherShutdown" =>
            /\ i = Len(funcLog)
            /\ runPc = "done" => runResult.kind = "RequestTimeout"

\* shutdown on the first attempt with retries remaining, run completed
C9_Witness ==
    /\ runPc = "done"
    /\ runs = 1
    /\ _retries >= 3
    /\ Len(funcLog) = 1
    /\ funcLog[1].outcome = "DispatcherShutdown"
    /\ funcLog[1].remaining >= 2

\* C10: with retries = 0 func is never invoked and run() completes with
\* the default RequestTimeout error.
C10_ZeroRetries ==
    _retries = 0 =>
        /\ funcLog = << >>
        /\ runPc = "done" => runResult = DefaultError

\* a driver configured with no retries has completed its run
C10_Witness == _retries = 0 /\ runs = 1 /\ runPc = "done"

-----------------------------------------------------------------------------
(* Properties of discovery through the retry driver *)

\* discovery is running on a shard nobody has stopped, and the dispatcher
\* has not shut down: the bootstrap endpoint only failed or answered
PlainDiscovery ==
    /\ startPc = "discovery"
    /\ stopFuture = "none"
    /\ \A i \in 1..Len(funcLog) : funcLog[i].outcome # "DispatcherShutdown"

\* the failures of the bootstrap endpoint as the function reports them
EndpointFailures == {"RequestTimeout", "OtherError"}

C28_TenFailures ==
    /\ PlainDiscovery
    /\ runPc = "done"
    /\ Len(funcLog) = DiscoveryRetries
    /\ runResult.kind \in EndpointFailures

\* the shard was stopped while discovery is in progress: the retry loop has
\* made at least one attempt and has not ended
StoppedInDiscovery ==
    /\ startPc = "discovery"
    /\ _stopped
    /\ Len(funcLog) > 0
    /\ runPc # "done"

\* C29: once the shard is stopped during discovery, the retry loop makes no
\* further attempt, no GET_DATA_URL request is sent, session.client is not
\* modified, and start() goes on neither to the handshake nor to the send
\* loop.
C29_StopEndsDiscovery ==
    [][StoppedInDiscovery =>
          /\ startPc' = "discovery" => Len(funcLog') = Len(funcLog)
          /\ rpc' = "GET_DATA_URL" => rpc = "GET_DATA_URL"
          /\ client' = client
          /\ startPc' \in {"discovery", "failed", "finally"}
      ]_vars

====
